---- MODULE Spec2Model ----
(***************************************************************************)
(* Model of the two scripts of jaxon-strategy-feed:                        *)
(*   generate-feed.py       builds feed.rss from the audio directory and   *)
(*                          the filename -> URL mapping drive-urls.json    *)
(*   sync-audio-to-drive.py uploads local audio files to a Drive folder    *)
(*                          and rewrites drive-urls.json                   *)
(* Strings are sequences of one-character strings, so that substring       *)
(* tests, concatenation and lexicographic comparison are computed.  Long   *)
(* literal prefixes are kept as one token.                                 *)
(***************************************************************************)
EXTENDS Integers, Sequences, FiniteSets, TLC

VARIABLES
    tokenExists,     \* os.path.exists(TOKEN_PATH)
    audio,           \* AUDIO_DIR: filename -> st_mtime of the files present
    drive,           \* the Drive folder: sequence of [id, name, public, byAgent]
    mapFile,         \* drive-urls.json: [exists, content: filename -> URL]
    s_pc,            \* sync-audio-to-drive.py main(): position
    existing_files,  \* main(): existing_files (the dict list_drive_files builds)
    unlisted,        \* list_drive_files: indices of drive not yet returned by a page
    drive_urls,      \* main(): drive_urls
    local_mp3s,      \* main(): local_mp3s (the names)
    todo,            \* main(): names of local_mp3s the for loop has not reached
    cur,             \* upload_file_to_drive: file_id between create and permission
    calls,           \* Drive API calls made by the current sync run, in order
    failed,          \* <<name, step>> of the uploads that raised in the current sync run
    loaded,          \* the mapping as loaded at lines 122-126 of the current run
    prev,            \* the previous sync run: how it ended, its local_mp3s, its failures
    everLocal,       \* names that were in local_mp3s of some sync run
    initMap,         \* drive-urls.json before the first run
    mapWriters,      \* the scripts that have written drive-urls.json
    g_pc,            \* generate-feed.py generate_rss(): position
    g_drive_urls,    \* generate_rss(): drive_urls
    mp3_files,       \* generate_rss(): mp3_files
    episodes,        \* generate_rss(): episodes
    feed             \* feed.rss: [exists, items: the sequence of <item> elements]

envVars  == <<tokenExists, audio, drive, mapFile>>
syncVars == <<s_pc, existing_files, unlisted, drive_urls, local_mp3s, todo, cur,
              calls, failed, loaded>>
histVars == <<prev, everLocal, initMap, mapWriters>>
genVars  == <<g_pc, g_drive_urls, mp3_files, episodes, feed>>
vars     == <<envVars, syncVars, histVars, genVars>>

None == "None"

\* upload_file_to_drive is not running
NoUpload == [ name |-> <<>>, id |-> <<>> ]

(***************************************************************************)
(* Bounds of the model.                                                    *)
(***************************************************************************)
\* modification times range over MaxDay + 1 consecutive days
MaxDay == 2
\* number of files in the Drive folder before the first run
MaxRemote == 2
\* files a single files().list page may return
PageSize == 1

(***************************************************************************)
(* Strings.                                                                *)
(***************************************************************************)
\* the characters used, in code point order
Ascii == << " ", "+", ",", ".", "/",
            "0", "1", "2", "3", "4", "5", "6", "7", "8", "9", ":",
            "A", "D", "F", "J", "M", "N", "O", "S", "T", "W",
            "a", "b", "c", "d", "e", "g", "h", "i", "k", "l", "m", "n", "o",
            "p", "r", "t", "u", "v", "x", "y" >>

Ord(c) == CHOOSE i \in 1..Len(Ascii) : Ascii[i] = c

\* Python's str < str: lexicographic by code point
RECURSIVE StrLess(_, _)
StrLess(s, t) ==
    IF t = <<>> THEN FALSE
    ELSE IF s = <<>> THEN TRUE
    ELSE IF Head(s) = Head(t) THEN StrLess(Tail(s), Tail(t))
    ELSE Ord(Head(s)) < Ord(Head(t))

\* Python's `sub in s`
Contains(s, sub) ==
    \E i \in 1..(Len(s) - Len(sub) + 1) : SubSeq(s, i, i + Len(sub) - 1) = sub

EndsWith(s, suf) ==
    /\ Len(s) >= Len(suf)
    /\ SubSeq(s, Len(s) - Len(suf) + 1, Len(s)) = suf

Digit(n) == Ascii[Ord("0") + n]
D2(n) == << Digit(n \div 10), Digit(n % 10) >>
D4(n) == D2(n \div 100) \o D2(n % 100)

(***************************************************************************)
(* File names of the model.                                                *)
(***************************************************************************)
A_MP3   == << "a", ".", "m", "p", "3" >>
B_MP3   == << "b", ".", "m", "p", "3" >>
TEMP_MP3  == << "a", ".", "t", "e", "m", "p", ".", "m", "p", "3" >>
CHUNK_MP3 == << "b", ".", "c", "h", "u", "n", "k", "1", ".", "m", "p", "3" >>
NOTES_TXT == << "n", ".", "t", "x", "t" >>

Names == { A_MP3, B_MP3, TEMP_MP3, CHUNK_MP3, NOTES_TXT }

TEMP_MARK  == << ".", "t", "e", "m", "p", "." >>
CHUNK_MARK == << ".", "c", "h", "u", "n", "k" >>
MP3_EXT    == << ".", "m", "p", "3" >>

\* the names a mapping file may hold before the first run
KeyNames == { A_MP3, B_MP3 }

(***************************************************************************)
(* generate-feed.py: pure parts.                                           *)
(***************************************************************************)
GITHUB_BASE_URL == << "https://jaxondigital.github.io/jaxon-strategy-feed/audio" >>

\* a filter that forgets the chunk marker
IsExcludedTempOnly(name) == Contains(name, TEMP_MARK)

\* lines 108 (generate-feed.py) and 131 (sync-audio-to-drive.py)
IsExcluded(name) == Contains(name, TEMP_MARK) \/ Contains(name, CHUNK_MARK)

\* AUDIO_DIR.glob('*.mp3') over a directory listing
GlobMp3(dir) == { n \in DOMAIN dir : EndsWith(n, MP3_EXT) }

\* sorted(...) of paths of one directory: ascending by name
RECURSIVE SortedNames(_)
SortedNames(S) ==
    IF S = {} THEN <<>>
    ELSE LET m == CHOOSE x \in S : \A y \in S \ {x} : StrLess(x, y)
         IN  <<m>> \o SortedNames(S \ {m})

\* mp3_path.stem: the name up to its last dot, when that dot is neither the
\* first nor the last character
Stem(name) ==
    LET dots == { i \in 1..Len(name) : name[i] = "." }
        last == IF dots = {} THEN 0 ELSE CHOOSE i \in dots : \A j \in dots : j <= i
    IN  IF 1 < last /\ last < Len(name) THEN SubSeq(name, 1, last - 1) ELSE name

\* a resolver that ignores the mapping
GetAudioUrlFallbackOnly(filename, urls) == GITHUB_BASE_URL \o <<"/">> \o filename

get_audio_url(filename, urls) ==
    IF filename \in DOMAIN urls
    THEN urls[filename]
    ELSE GITHUB_BASE_URL \o <<"/">> \o filename

DayAbbr == << <<"M","o","n">>, <<"T","u","e">>, <<"W","e","d">>, <<"T","h","u">>,
              <<"F","r","i">>, <<"S","a","t">>, <<"S","u","n">> >>
MonthAbbr == << <<"J","a","n">>, <<"F","e","b">>, <<"M","a","r">>, <<"A","p","r">>,
                <<"M","a","y">>, <<"J","u","n">>, <<"J","u","l">>, <<"A","u","g">>,
                <<"S","e","p">>, <<"O","c","t">>, <<"N","o","v">>, <<"D","e","c">> >>

SecondsPerDay == 24 * 3600

\* datetime.fromtimestamp(mtime) on a host whose local time is UTC:
\* [year, month, day, weekday (Monday = 0), hour, minute, second]
FromTimestamp(mtime) ==
    LET days == mtime \div SecondsPerDay
        secs == mtime % SecondsPerDay
        z    == days + 719468
        era  == z \div 146097
        doe  == z - era * 146097
        yoe  == (doe - doe \div 1460 + doe \div 36524 - doe \div 146096) \div 365
        doy  == doe - (365 * yoe + yoe \div 4 - yoe \div 100)
        mp   == (5 * doy + 2) \div 153
        d    == doy - (153 * mp + 2) \div 5 + 1
        m    == IF mp < 10 THEN mp + 3 ELSE mp - 9
        y    == yoe + era * 400 + (IF m <= 2 THEN 1 ELSE 0)
    IN  [ year |-> y, month |-> m, day |-> d, weekday |-> (days + 3) % 7,
          hour |-> secs \div 3600, minute |-> (secs % 3600) \div 60,
          second |-> secs % 60 ]

\* strftime('%a, %d %b %Y %H:%M:%S %z') of a naive datetime: %z is empty
Strftime(dt) ==
    DayAbbr[dt.weekday + 1] \o <<",", " ">> \o D2(dt.day) \o <<" ">>
        \o MonthAbbr[dt.month] \o <<" ">> \o D4(dt.year) \o <<" ">>
        \o D2(dt.hour) \o <<":">> \o D2(dt.minute) \o <<":">> \o D2(dt.second)
        \o <<" ">>

UTC_SUFFIX == << " ", "+", "0", "0", "0", "0" >>

\* lines 120-123
PubDate(mtime) ==
    LET pub_date == Strftime(FromTimestamp(mtime))
    IN  IF EndsWith(pub_date, UTC_SUFFIX) THEN pub_date ELSE pub_date \o UTC_SUFFIX

\* the key of line 137
SortKey(e) == e.pub_date

\* episodes.sort(key=..., reverse=True): stable, descending by key
RECURSIVE InsertDesc(_, _)
InsertDesc(sorted, e) ==
    IF sorted = <<>> THEN <<e>>
    ELSE IF StrLess(SortKey(Head(sorted)), SortKey(e))
         THEN <<e>> \o sorted
         ELSE <<Head(sorted)>> \o InsertDesc(Tail(sorted), e)

RECURSIVE SortEpisodes(_)
SortEpisodes(eps) ==
    IF eps = <<>> THEN <<>>
    ELSE InsertDesc(SortEpisodes(SubSeq(eps, 1, Len(eps) - 1)), eps[Len(eps)])

\* get_mp3_metadata when ffprobe succeeds and the file carries no tags
Metadata(name) == [ title |-> Stem(name), comment |-> <<>> ]

\* lines 125-134
Episode(name, metadata, urls, mtime) ==
    [ filename    |-> name,
      title       |-> metadata.title,
      description |-> IF metadata.comment # <<>> THEN metadata.comment
                      ELSE << "Strategy document - " >> \o metadata.title,
      audio_url   |-> get_audio_url(name, urls),
      pub_date    |-> PubDate(mtime) ]

\* lines 140-151: one <item> per episode
Item(ep) ==
    [ title |-> ep.title, description |-> ep.description, pubDate |-> ep.pub_date,
      guid |-> ep.audio_url, enclosure_url |-> ep.audio_url,
      enclosure_type |-> "audio/mpeg" ]

Items(eps) == [ i \in 1..Len(eps) |-> Item(eps[i]) ]

(***************************************************************************)
(* sync-audio-to-drive.py: pure parts.                                     *)
(***************************************************************************)
DRIVE_LINK_PREFIX == << "https://drive.google.com/uc?export=download&id=" >>

\* lines 64 and 103
DownloadLink(file_id) == DRIVE_LINK_PREFIX \o file_id

\* the id Drive gives the k-th file of the folder
FileId(k) == << "i", "d", Digit(k) >>

\* a URL that is no Drive download link of the folder (a file published by another route)
OTHER_URL == << "https://example.org/other/", "a", ".", "m", "p", "3" >>

\* lines 129-132
LocalMp3s(dir) == { n \in GlobMp3(dir) : ~IsExcluded(n) }

Put(f, k, v) == [ x \in DOMAIN f \cup {k} |-> IF x = k THEN v ELSE f[x] ]

EmptyMap == [ x \in {} |-> <<>> ]

\* a file that does not exist, and a file holding `content`
NoFile(empty) == [ exists |-> FALSE, content |-> empty ]
FileOf(content) == [ exists |-> TRUE, content |-> content ]

\* json.load of drive-urls.json when it exists, {} otherwise (lines 52-55, 122-126)
LoadMapping(file) == IF file.exists THEN file.content ELSE EmptyMap

(***************************************************************************)
(* sync-audio-to-drive.py: the run, one action per step of main().         *)
(***************************************************************************)
Min(a, b) == IF a < b THEN a ELSE b

\* an authentication step that does not look for the token file
TokenFoundAlways == TRUE

\* line 25: the token file is there
TokenFound == tokenExists

\* the two tests of lines 141 and 144 in the other order
DecideCacheFirst(filename, existing, urls) ==
    IF filename \in DOMAIN urls THEN "mapped"
    ELSE IF filename \in DOMAIN existing THEN "remote"
    ELSE "upload"

\* lines 141-147: what main() does with a local file
Decide(filename, existing, urls) ==
    IF filename \in DOMAIN existing THEN "remote"
    ELSE IF filename \in DOMAIN urls THEN "mapped"
    ELSE "upload"

\* line 143
RecordExisting(urls, filename, existing) == Put(urls, filename, existing[filename])

\* an upload whose link is not recorded
RecordUploadNothing(urls, filename, download_link) == urls

\* line 150
RecordUpload(urls, filename, download_link) == Put(urls, filename, download_link)

\* an upload whose exception is not caught
AfterUploadErrorAbort == "aborted"

\* lines 153-154: the exception of an upload is caught and the for loop goes on
AfterUploadError == "loop"

\* a save that keeps only the entries of the files found locally
SavedMappingPruned(urls) == [ n \in DOMAIN urls \cap local_mp3s |-> urls[n] ]

\* lines 157-158: json.dump(drive_urls)
SavedMapping(urls) == urls

\* lines 23-26 and the first statements of list_drive_files (lines 49-50).
\* Lines 28-45 build the client from the token file; the refresh of lines 39-43
\* rewrites that file's content only.
Authenticate ==
    /\ s_pc = "start"
    /\ IF TokenFound
       THEN /\ s_pc' = "list"
            /\ unlisted' = 1..Len(drive)
            /\ existing_files' = EmptyMap
       ELSE /\ s_pc' = "aborted"
            /\ UNCHANGED <<unlisted, existing_files>>
    /\ UNCHANGED <<drive_urls, local_mp3s, todo, cur, calls, failed, loaded>>
    /\ UNCHANGED <<envVars, histVars, genVars>>

\* lines 52-69: one files().list call and the page it returns.  Drive returns
\* the files of the folder in an order of its choosing; of two files of one
\* name in a page, the later one stays in the dict.
ListPage ==
    /\ s_pc = "list"
    /\ \E page \in SUBSET unlisted :
         /\ Cardinality(page) = Min(PageSize, Cardinality(unlisted))
         /\ LET names == { drive[i].name : i \in page }
            IN  \E last \in [ names -> page ] :
                  /\ \A n \in names : drive[last[n]].name = n
                  /\ existing_files' =
                        [ n \in DOMAIN existing_files \cup names |->
                            IF n \in names THEN DownloadLink(drive[last[n]].id)
                            ELSE existing_files[n] ]
         /\ unlisted' = unlisted \ page
         /\ s_pc' = IF unlisted \ page = {} THEN "load" ELSE "list"
    /\ calls' = Append(calls, <<"list">>)
    /\ UNCHANGED <<drive_urls, local_mp3s, todo, cur, failed, loaded>>
    /\ UNCHANGED <<envVars, histVars, genVars>>

\* lines 53-59: the list call raises; nothing catches it
ListFail ==
    /\ s_pc = "list"
    /\ calls' = Append(calls, <<"list">>)
    /\ s_pc' = "aborted"
    /\ UNCHANGED <<existing_files, unlisted, drive_urls, local_mp3s, todo, cur,
                   failed, loaded>>
    /\ UNCHANGED <<envVars, histVars, genVars>>

\* lines 121-134
LoadAndScan ==
    /\ s_pc = "load"
    /\ drive_urls' = LoadMapping(mapFile)
    /\ loaded' = LoadMapping(mapFile)
    /\ local_mp3s' = LocalMp3s(audio)
    /\ todo' = LocalMp3s(audio)
    /\ everLocal' = everLocal \cup LocalMp3s(audio)
    /\ s_pc' = "loop"
    /\ UNCHANGED <<existing_files, unlisted, cur, calls, failed>>
    /\ UNCHANGED <<envVars, prev, initMap, mapWriters, genVars>>

\* lines 141-143
MatchedRemote(filename) ==
    /\ s_pc = "loop"
    /\ filename \in todo
    /\ Decide(filename, existing_files, drive_urls) = "remote"
    /\ drive_urls' = RecordExisting(drive_urls, filename, existing_files)
    /\ todo' = todo \ {filename}
    /\ UNCHANGED <<s_pc, existing_files, unlisted, local_mp3s, cur, calls, failed,
                   loaded>>
    /\ UNCHANGED <<envVars, histVars, genVars>>

\* lines 144-145
MatchedCache(filename) ==
    /\ s_pc = "loop"
    /\ filename \in todo
    /\ Decide(filename, existing_files, drive_urls) = "mapped"
    /\ todo' = todo \ {filename}
    /\ UNCHANGED <<s_pc, existing_files, unlisted, drive_urls, local_mp3s, cur,
                   calls, failed, loaded>>
    /\ UNCHANGED <<envVars, histVars, genVars>>

\* lines 147-149, 75-89: files().create succeeds; the new file is not yet public
UploadCreateOk(filename) ==
    /\ s_pc = "loop"
    /\ filename \in todo
    /\ Decide(filename, existing_files, drive_urls) = "upload"
    /\ calls' = Append(calls, <<"create", filename>>)
    /\ LET file_id == FileId(Len(drive) + 1)
       IN  /\ drive' = Append(drive, [ id |-> file_id, name |-> filename,
                                       public |-> FALSE, byAgent |-> TRUE ])
           /\ cur' = [ name |-> filename, id |-> file_id ]
    /\ s_pc' = "perm"
    /\ UNCHANGED <<existing_files, unlisted, drive_urls, local_mp3s, todo, failed,
                   loaded>>
    /\ UNCHANGED <<tokenExists, audio, mapFile, histVars, genVars>>

\* lines 147-149, 81-87, 153-154: MediaFileUpload or files().create raises
UploadCreateFail(filename) ==
    /\ s_pc = "loop"
    /\ filename \in todo
    /\ Decide(filename, existing_files, drive_urls) = "upload"
    /\ calls' = Append(calls, <<"create", filename>>)
    /\ failed' = failed \cup {<<filename, "create">>}
    /\ todo' = todo \ {filename}
    /\ s_pc' = AfterUploadError
    /\ UNCHANGED <<existing_files, unlisted, drive_urls, local_mp3s, cur, loaded>>
    /\ UNCHANGED <<envVars, histVars, genVars>>

\* lines 91-104, 150-152: permissions().create succeeds and the link is recorded
UploadPermissionOk ==
    /\ s_pc = "perm"
    /\ calls' = Append(calls, <<"permission", cur.id>>)
    /\ drive' = [ i \in 1..Len(drive) |->
                    IF drive[i].id = cur.id THEN [ drive[i] EXCEPT !.public = TRUE ]
                    ELSE drive[i] ]
    /\ drive_urls' = RecordUpload(drive_urls, cur.name, DownloadLink(cur.id))
    /\ todo' = todo \ {cur.name}
    /\ cur' = NoUpload
    /\ s_pc' = "loop"
    /\ UNCHANGED <<existing_files, unlisted, local_mp3s, failed, loaded>>
    /\ UNCHANGED <<tokenExists, audio, mapFile, histVars, genVars>>

\* lines 96-100, 153-154: permissions().create raises; the file stays in the folder
UploadPermissionFail ==
    /\ s_pc = "perm"
    /\ calls' = Append(calls, <<"permission", cur.id>>)
    /\ failed' = failed \cup {<<cur.name, "permission">>}
    /\ todo' = todo \ {cur.name}
    /\ cur' = NoUpload
    /\ s_pc' = AfterUploadError
    /\ UNCHANGED <<existing_files, unlisted, drive_urls, local_mp3s, loaded>>
    /\ UNCHANGED <<envVars, histVars, genVars>>

\* lines 156-158
Persist ==
    /\ s_pc = "loop"
    /\ todo = {}
    /\ mapFile' = FileOf(SavedMapping(drive_urls))
    /\ mapWriters' = mapWriters \cup {"sync-audio-to-drive"}
    /\ s_pc' = "done"
    /\ UNCHANGED <<existing_files, unlisted, drive_urls, local_mp3s, todo, cur,
                   calls, failed, loaded>>
    /\ UNCHANGED <<tokenExists, audio, drive, prev, everLocal, initMap, genVars>>

SyncStep ==
    \/ Authenticate
    \/ ListPage
    \/ ListFail
    \/ LoadAndScan
    \/ \E filename \in Names : MatchedRemote(filename)
    \/ \E filename \in Names : MatchedCache(filename)
    \/ \E filename \in Names : UploadCreateOk(filename)
    \/ \E filename \in Names : UploadCreateFail(filename)
    \/ UploadPermissionOk
    \/ UploadPermissionFail
    \/ Persist

\* the script is started again after a run has ended
SyncRerun ==
    /\ s_pc \in {"done", "aborted"}
    /\ prev' = [ status |-> s_pc, local |-> local_mp3s, failed |-> failed ]
    /\ s_pc' = "start"
    /\ existing_files' = EmptyMap
    /\ unlisted' = {}
    /\ drive_urls' = EmptyMap
    /\ local_mp3s' = {}
    /\ todo' = {}
    /\ calls' = <<>>
    /\ failed' = {}
    /\ loaded' = EmptyMap
    /\ UNCHANGED <<cur, envVars, everLocal, initMap, mapWriters, genVars>>

(***************************************************************************)
(* generate-feed.py: generate_rss().                                       *)
(***************************************************************************)
\* lines 106-134 over mp3_files; `bad` are the files get_mp3_metadata returns None for
RECURSIVE BuildEpisodes(_, _, _, _)
BuildEpisodes(files, bad, urls, dir) ==
    IF files = <<>> THEN <<>>
    ELSE LET name == Head(files)
             rest == BuildEpisodes(Tail(files), bad, urls, dir)
         IN  IF IsExcluded(name) \/ name \in bad THEN rest
             ELSE <<Episode(name, Metadata(name), urls, dir[name])>> \o rest

\* line 69
GenLoad ==
    /\ g_pc = "start"
    /\ g_drive_urls' = LoadMapping(mapFile)
    /\ g_pc' = "scan"
    /\ UNCHANGED <<mp3_files, episodes, feed>>
    /\ UNCHANGED <<envVars, syncVars, histVars>>

\* lines 99-134
GenScan ==
    /\ g_pc = "scan"
    /\ mp3_files' = SortedNames(GlobMp3(audio))
    /\ \E bad \in SUBSET GlobMp3(audio) :
         episodes' = BuildEpisodes(SortedNames(GlobMp3(audio)), bad, g_drive_urls, audio)
    /\ g_pc' = "write"
    /\ UNCHANGED <<g_drive_urls, feed>>
    /\ UNCHANGED <<envVars, syncVars, histVars>>

\* a generator that writes its mapping back when it ends
GenWriteSavingMapping ==
    /\ g_pc = "write"
    /\ episodes' = SortEpisodes(episodes)
    /\ feed' = FileOf(Items(SortEpisodes(episodes)))
    /\ mapFile' = FileOf(g_drive_urls)
    /\ mapWriters' = mapWriters \cup {"generate-feed"}
    /\ g_pc' = "done"
    /\ UNCHANGED <<g_drive_urls, mp3_files>>
    /\ UNCHANGED <<tokenExists, audio, drive, syncVars, prev, everLocal, initMap>>

\* lines 136-172: the only file generate_rss writes is feed.rss
GenWrite ==
    /\ g_pc = "write"
    /\ episodes' = SortEpisodes(episodes)
    /\ feed' = FileOf(Items(SortEpisodes(episodes)))
    /\ g_pc' = "done"
    /\ UNCHANGED <<g_drive_urls, mp3_files>>
    /\ UNCHANGED <<envVars, syncVars, histVars>>

GenStep == GenLoad \/ GenScan \/ GenWrite

(***************************************************************************)
(* The environment between runs of the sync script.                        *)
(***************************************************************************)
BaseTime == 20786 * SecondsPerDay      \* Sun, 29 Nov 2026 00:00:00

MTimes == { BaseTime + d * SecondsPerDay + d * 3723 : d \in 0..MaxDay }

AddFile(name) ==
    /\ s_pc = "start"
    /\ name \notin DOMAIN audio
    /\ audio' = [ n \in DOMAIN audio \cup {name} |->
                    IF n = name THEN BaseTime ELSE audio[n] ]
    /\ UNCHANGED <<tokenExists, drive, mapFile, syncVars, histVars, genVars>>

DeleteFile(name) ==
    /\ s_pc = "start"
    /\ name \in DOMAIN audio
    /\ audio' = [ n \in DOMAIN audio \ {name} |-> audio[n] ]
    /\ UNCHANGED <<tokenExists, drive, mapFile, syncVars, histVars, genVars>>

ToggleToken ==
    /\ s_pc = "start"
    /\ tokenExists' = ~tokenExists
    /\ UNCHANGED <<audio, drive, mapFile, syncVars, histVars, genVars>>

(***************************************************************************)
(* Initial states.                                                         *)
(***************************************************************************)
\* directory listings over `names`: the finished episodes carry any of `times`
Dirs(names, times) ==
    { d \in UNION { [ S -> times \cup {BaseTime} ] : S \in SUBSET names } :
        \A n \in DOMAIN d : n \notin {A_MP3, B_MP3} => d[n] = BaseTime }

\* folder contents: up to MaxRemote public files somebody else put there
RemoteFile(k, name) == [ id |-> FileId(k), name |-> name, public |-> TRUE,
                         byAgent |-> FALSE ]

InitDrives ==
    UNION { { [ k \in 1..m |-> RemoteFile(k, names[k]) ] : names \in [ 1..m -> KeyNames ] } :
            m \in 0..MaxRemote }

\* the id of a file that was in the folder once and is there no more
OLD_ID == << "i", "d", "0" >>

InitUrls == { DownloadLink(OLD_ID), OTHER_URL }

InitMaps ==
    {NoFile(EmptyMap)}
        \cup { FileOf(m) : m \in UNION { [ S -> InitUrls ] : S \in SUBSET KeyNames } }

InitRun ==
    /\ s_pc = "start"
    /\ existing_files = EmptyMap
    /\ unlisted = {}
    /\ drive_urls = EmptyMap
    /\ local_mp3s = {}
    /\ todo = {}
    /\ cur = NoUpload
    /\ calls = <<>>
    /\ failed = {}
    /\ loaded = EmptyMap
    /\ prev = [ status |-> "none", local |-> {}, failed |-> {} ]
    /\ everLocal = {}
    /\ initMap = mapFile
    /\ mapWriters = {}
    /\ g_pc = "start"
    /\ g_drive_urls = EmptyMap
    /\ mp3_files = <<>>
    /\ episodes = <<>>
    /\ feed = NoFile(<<>>)

\* both scripts are started once, at any time relative to each other
Init ==
    /\ tokenExists \in BOOLEAN
    /\ audio \in Dirs(Names, {BaseTime})
    /\ drive \in { d \in InitDrives : \A k \in 1..Len(d) : d[k].name = A_MP3 }
    /\ mapFile \in { m \in InitMaps : DOMAIN m.content \subseteq {A_MP3} }
    /\ InitRun

Next == SyncStep \/ GenStep

Spec == Init /\ [][Next]_vars

\* the feed generator alone, over directories of any modification times
InitFeed ==
    /\ tokenExists = TRUE
    /\ audio \in Dirs(Names, MTimes)
    /\ drive = <<>>
    /\ mapFile \in InitMaps
    /\ InitRun

NextFeed == GenStep

SpecFeed == InitFeed /\ [][NextFeed]_vars

\* the sync script is run again and again; files come and go between the runs
SyncNames == { A_MP3, B_MP3, TEMP_MP3 }

InitSync ==
    /\ tokenExists \in BOOLEAN
    /\ audio \in Dirs(SyncNames, {BaseTime})
    /\ drive \in InitDrives
    /\ mapFile \in InitMaps
    /\ InitRun

NextSync ==
    \/ SyncStep
    \/ SyncRerun
    \/ \E name \in SyncNames : AddFile(name)
    \/ \E name \in SyncNames : DeleteFile(name)
    \/ ToggleToken

SpecSync == InitSync /\ [][NextSync]_vars

\* one run of the sync script, which goes on step after step until it ends
NextRun == SyncStep

SpecRun == InitSync /\ [][NextRun]_vars /\ WF_vars(NextRun)

(***************************************************************************)
(* Properties.                                                             *)
(***************************************************************************)
\* the number of files().create calls the current sync run made for `name`
CreateCount(name) ==
    Cardinality({ j \in 1..Len(calls) : calls[j] = <<"create", name>> })

\* the name contains one of the two markers, spelled out
HasMarker(name) ==
    \/ \E i \in 1..(Len(name) - 5) : SubSeq(name, i, i + 5) = <<".", "t", "e", "m", "p", ".">>
    \/ \E i \in 1..(Len(name) - 5) : SubSeq(name, i, i + 5) = <<".", "c", "h", "u", "n", "k">>

\* C1: a file of the audio directory whose name contains '.temp.' or '.chunk'
\* gives no episode and no feed item, and no upload call is made for it.
C1_ExcludedNeverInFeedNorUploaded ==
    \A n \in DOMAIN audio :
        HasMarker(n) =>
            /\ \A i \in 1..Len(episodes) : episodes[i].filename # n
            /\ \A i \in 1..Len(feed.content) :
                   /\ feed.content[i].title # Stem(n)
                   /\ ~EndsWith(feed.content[i].guid, n)
            /\ CreateCount(n) = 0

\* both scripts have ended, both marked files were in the directory, the feed
\* has an item and the sync run uploaded a file
C1_Witness ==
    /\ g_pc = "done"
    /\ s_pc = "done"
    /\ TEMP_MP3 \in DOMAIN audio
    /\ CHUNK_MP3 \in DOMAIN audio
    /\ Len(feed.content) >= 1
    /\ \E n \in DOMAIN audio : CreateCount(n) = 1

\* C3: once the feed is written, of two items whose files have different
\* modification times the one of the later-modified file comes first.
C3_ItemsByModificationTime ==
    g_pc = "done" =>
        \A i, j \in 1..Len(feed.content) :
            (i < j /\ audio[episodes[i].filename] # audio[episodes[j].filename])
                => audio[episodes[i].filename] > audio[episodes[j].filename]

\* C5: the guid and the enclosure url of a file's item are the mapping's value
\* when the file name is a key of the mapping file, and otherwise the base URL,
\* one '/', and the file name.
C5_AudioUrlResolution ==
    g_pc = "done" =>
        /\ Len(feed.content) = Len(episodes)
        /\ \A i \in 1..Len(feed.content) :
             LET f  == episodes[i].filename
                 it == feed.content[i]
             IN  /\ it.guid = it.enclosure_url
                 /\ (mapFile.exists /\ f \in DOMAIN mapFile.content)
                        => it.guid = mapFile.content[f]
                 /\ ~(mapFile.exists /\ f \in DOMAIN mapFile.content)
                        => /\ Len(it.guid) = Len(f) + 2
                           /\ it.guid[1] = "https://jaxondigital.github.io/jaxon-strategy-feed/audio"
                           /\ it.guid[2] = "/"
                           /\ SubSeq(it.guid, 3, Len(it.guid)) = f

\* the feed holds an item of a mapped file and an item of an unmapped file
C5_Witness ==
    /\ g_pc = "done"
    /\ \E i, j \in 1..Len(feed.content) :
         /\ episodes[i].filename \in DOMAIN mapFile.content
         /\ feed.content[i].guid = OTHER_URL
         /\ episodes[j].filename \notin DOMAIN mapFile.content

\* the names of the uploads that raised in a run
FailedNames(fs) == { p[1] : p \in fs }

\* no two files of the Drive folder have the same name
NoDupNames ==
    \A i, j \in 1..Len(drive) : drive[i].name = drive[j].name => i = j

\* the entry of `name` in a mapping, None when it has none
Entry(m, name) == IF name \in DOMAIN m THEN m[name] ELSE <<None>>

\* this run and the run before it both ran to completion over the same local files
SecondRunDone ==
    /\ s_pc = "done"
    /\ prev.status = "done"
    /\ local_mp3s = prev.local

\* C2 as stated: a second complete run over unchanged local files makes no
\* upload call and saves the mapping the first run saved, whatever the first
\* run's uploads did.
C2_SecondRunIdempotent ==
    SecondRunDone =>
        /\ \A n \in Names : CreateCount(n) = 0
        /\ mapFile.content = loaded

\* C2 as amended: with no two remote files of one name, the second run uploads
\* only files whose create step failed in the first run, and changes the
\* mapping only at files whose upload failed in the first run; so after a
\* first run without upload failures it uploads nothing and saves the same mapping.
C2_SecondRunRepeatsOnlyFailures ==
    (SecondRunDone /\ NoDupNames) =>
        /\ \A n \in Names : CreateCount(n) > 0 => <<n, "create">> \in prev.failed
        /\ \A n \in Names :
               n \notin FailedNames(prev.failed)
                   => Entry(mapFile.content, n) = Entry(loaded, n)
        /\ prev.failed = {} =>
               /\ \A n \in Names : CreateCount(n) = 0
               /\ mapFile.content = loaded

\* a second run after a first run that uploaded a file without failure
C2_Witness ==
    /\ SecondRunDone
    /\ NoDupNames
    /\ prev.failed = {}
    /\ local_mp3s # {}
    /\ \E i \in 1..Len(drive) :
         /\ drive[i].byAgent
         /\ drive[i].name \in local_mp3s
         /\ Entry(mapFile.content, drive[i].name)
                = << "https://drive.google.com/uc?export=download&id=" >> \o drive[i].id

\* C4: with the token file absent, the run ends in the authentication step and
\* makes no list, create or permission call.
C4_NoTokenNoCalls ==
    (~tokenExists /\ s_pc # "start") => (s_pc = "aborted" /\ calls = <<>>)

\* a run aborted for want of the token, with a remote file to list and a local
\* file to upload
C4_Witness ==
    /\ ~tokenExists
    /\ s_pc = "aborted"
    /\ drive # <<>>
    /\ \E n \in DOMAIN audio :
         /\ n \in {A_MP3, B_MP3}
         /\ n \notin DOMAIN mapFile.content
         /\ \A i \in 1..Len(drive) : drive[i].name # n

\* C6: when a run has ended, for each of its local files: listed remotely, the
\* saved mapping holds the link of the listed file and no upload was made;
\* else mapped before, the entry is as loaded and no upload was made; else one
\* upload was attempted and, if it did not fail, the link of the new file is saved.
C6_DecisionPrecedence ==
    s_pc = "done" =>
        \A f \in local_mp3s :
            IF f \in DOMAIN existing_files
            THEN /\ CreateCount(f) = 0
                 /\ Entry(mapFile.content, f) = existing_files[f]
                 /\ \E i \in 1..Len(drive) :
                      /\ drive[i].name = f
                      /\ existing_files[f]
                           = << "https://drive.google.com/uc?export=download&id=" >>
                                 \o drive[i].id
            ELSE IF f \in DOMAIN loaded
            THEN /\ CreateCount(f) = 0
                 /\ Entry(mapFile.content, f) = loaded[f]
            ELSE /\ CreateCount(f) = 1
                 /\ f \notin FailedNames(failed) =>
                      \E i \in 1..Len(drive) :
                        /\ drive[i].name = f
                        /\ drive[i].byAgent
                        /\ \E j \in 1..Len(calls) : calls[j] = <<"permission", drive[i].id>>
                        /\ Entry(mapFile.content, f)
                             = << "https://drive.google.com/uc?export=download&id=" >>
                                   \o drive[i].id

\* a run has ended in which one file was listed remotely though the mapping
\* held another URL for it, and another file was only in the mapping
C6_Witness ==
    /\ s_pc = "done"
    /\ \E f, g \in local_mp3s :
         /\ f \in DOMAIN existing_files
         /\ f \in DOMAIN loaded
         /\ loaded[f] # existing_files[f]
         /\ g \notin DOMAIN existing_files
         /\ g \in DOMAIN loaded

\* after an upload has failed the run is not aborted; when it ends, every
\* local file has been handled, the whole mapping is written, and a file whose
\* upload failed has no entry
UploadFailureKept ==
    failed # {} =>
        /\ s_pc \in {"loop", "perm", "done"}
        /\ s_pc = "done" =>
             /\ todo = {}
             /\ \A f \in local_mp3s :
                    \/ f \in DOMAIN existing_files
                    \/ f \in DOMAIN loaded
                    \/ CreateCount(f) = 1
             /\ mapFile = [ exists |-> TRUE, content |-> drive_urls ]
             /\ \A n \in DOMAIN loaded : n \in DOMAIN mapFile.content
             /\ \A n \in FailedNames(failed) : n \notin DOMAIN mapFile.content

\* C7: a failed upload (create or permission step) does not abort the run: the
\* remaining files are handled, the run goes on to the persist step and writes
\* the whole mapping, and the failed file gets no entry.
C7_UploadFailureTolerated ==
    /\ []UploadFailureKept
    /\ (failed # {}) ~> (s_pc = "done" /\ "sync-audio-to-drive" \in mapWriters)

\* a run has ended in which the create step failed for one file and another
\* file was uploaded after that
C7_Witness ==
    /\ s_pc = "done"
    /\ \E i, j \in 1..Len(calls) :
         /\ i < j
         /\ calls[i][1] = "create"
         /\ <<calls[i][2], "create">> \in failed
         /\ calls[j][1] = "create"
         /\ calls[j][2] \in DOMAIN mapFile.content

\* C8 as stated, in the part a run can refute: each script that has ended has
\* written the mapping file.
C8_EachScriptWritesMapping ==
    /\ s_pc = "done" => "sync-audio-to-drive" \in mapWriters
    /\ g_pc = "done" => "generate-feed" \in mapWriters

\* C8 as amended: run side by side, the feed generator never writes the mapping
\* file; the file keeps its first content until the sync agent's one write and
\* holds the sync agent's mapping after it, whenever the generator runs.
C8_OnlySyncWritesMapping ==
    /\ mapWriters \subseteq {"sync-audio-to-drive"}
    /\ s_pc # "done" => mapFile = initMap
    /\ s_pc = "done" => mapFile = [ exists |-> TRUE, content |-> drive_urls ]

\* both scripts have ended; the generator read the mapping before the sync
\* agent wrote a different one
C8_Witness ==
    /\ s_pc = "done"
    /\ g_pc = "done"
    /\ mapFile # initMap
    /\ g_drive_urls # mapFile.content
    /\ Len(feed.content) >= 1

\* C9: starting from an absent or empty mapping file, every key of the file is
\* a name some run found among the local audio files; and a run that has ended
\* has kept every key it loaded.
C9_KeysWereLocalAndNeverPruned ==
    /\ DOMAIN initMap.content = {} => DOMAIN mapFile.content \subseteq everLocal
    /\ \A n \in everLocal : n \in SyncNames /\ ~HasMarker(n)
    /\ s_pc = "done" => DOMAIN loaded \subseteq DOMAIN mapFile.content

\* a run has ended, the mapping file was empty at first, and it now holds a key
\* the run loaded whose local file is gone
C9_Witness ==
    /\ s_pc = "done"
    /\ DOMAIN initMap.content = {}
    /\ \E n \in DOMAIN mapFile.content :
         /\ n \in DOMAIN loaded
         /\ n \notin DOMAIN audio

\* C10: a mapping entry that is the download link of a file the sync agent
\* created names a file that is publicly readable.
C10_MappedAgentFilesArePublic ==
    \A n \in DOMAIN mapFile.content :
        \A i \in 1..Len(drive) :
            ( /\ drive[i].byAgent
              /\ mapFile.content[n]
                   = << "https://drive.google.com/uc?export=download&id=" >> \o drive[i].id )
                => drive[i].public

====
